---- MODULE Spec2Model ----
(***************************************************************************)
(* Model of FibreLaserController.ino: the control loop (loop, lines        *)
(* 139-166), the mode derivation GetModeFunction, the mode actions         *)
(* ModeRunFunction / AlarmActions, the encoders SetPowerLevel and          *)
(* SetPulseRate, and the two IntervalTimer callbacks LaserPulseGenerator   *)
(* and AlarmLEDFlasher, which interrupt the control loop between any two   *)
(* of its statements.                                                      *)
(*                                                                         *)
(* Time is counted in milliseconds by the action Tick.  delay(n) returns   *)
(* once n ticks have passed; every other statement takes microseconds,     *)
(* which is no time at this resolution, and the time they add up to passes *)
(* at the cycle boundary, in any amount.  Clocks saturate (at ClockCap,    *)
(* the flasher's timer at FlashCap): a saturated clock stands for every    *)
(* value at or above its cap.                                              *)
(*                                                                         *)
(* Pin levels are the strings "HIGH" and "LOW".  Floating-point values     *)
(* are fixed-point integers: frequencies in 1e-6 kHz, display input in     *)
(* 1e-3 mV, half-periods in 1e-2 us.                                       *)
(***************************************************************************)
EXTENDS Integers, FiniteSets, Sequences, TLC

VARIABLES
    pc,                  \* position of the control loop
    OperatingMode,       \* line 73
    EnableLaserTrigger,  \* line 74
    LaserPower,          \* line 75
    LaserPulsePeriod,    \* line 70, in 1e-2 us
    AlarmState,          \* line 79
    ActionBounce1,       \* debounced level of switch 1 (line 77)
    ActionBounce2,       \* debounced level of switch 2 (line 78)
    AlarmLSB,            \* level read from AlarmLSBPin in this cycle (line 194)
    AlarmMSB,            \* level read from AlarmMSBPin in this cycle (lines 196, 207)
    DialReading,         \* last result of analogRead(DialInputPin)
    LaserMOSignal,       \* output pin 15
    LaserONSignal,       \* output pin 16
    LaserPulses,         \* output pin 17
    pulseCalls,          \* calls of LaserPulseGenerator so far, modulo 2
    ExternalLED,         \* output pin 3
    PowerPins,           \* output pins LaserPowerBit0Pin..LaserPowerBit7Pin
    DisplayOut,          \* value written to DisplayOutputPin
    AlarmLEDFlashTimer,  \* line 69: [running, elapsed ms since begin or last call]
    delayLeft,           \* ms left of the delay() the control loop is in
    moAge,               \* ms since LaserMOSignal went LOW (saturating)
    offAge               \* ms since the control loop wrote LaserONSignal HIGH
                         \* in a shutdown sequence (saturating)

vars == <<pc, OperatingMode, EnableLaserTrigger, LaserPower, LaserPulsePeriod,
          AlarmState, ActionBounce1, ActionBounce2, AlarmLSB, AlarmMSB,
          DialReading, LaserMOSignal, LaserONSignal, LaserPulses, pulseCalls,
          ExternalLED, PowerPins, DisplayOut, AlarmLEDFlashTimer, delayLeft,
          moAge, offAge>>

---------------------------------------------------------------------------
(* Bounds of the model *)

\* clocks saturate here
ClockCap == 6
\* the flasher's timer counts up to here: a count of FlashCap stands for
\* every time >= FlashCap ms since the timer was started or last called
FlashCap == 2
\* analogRead returns one of NumDial + 1 readings spread over [0, 255]
NumDial == 1

(* Program constants *)

\* a startup delay one millisecond short
ShortStartupDelay == 5 - 1
\* delay(5), line 240
StartupDelayMs == 5
\* no delay between ON off and MO off
NoShutdownDelay == 1 - 1
\* delay(1), lines 273, 282, 407
ShutdownDelayMs == 1
\* AlarmLEDFlashTimer.begin(AlarmLEDFlasher, 1000000), line 403, in ms
AlarmFlashPeriodMs == 1000
\* float DisplayMultiplier = 1.240909, line 76, in 1e-6
DisplayMultiplier == 1240909
\* float LaserPulsePeriod = 12.5, line 70, in 1e-2 us
InitialPulsePeriod == 1250
\* uint8_t OperatingMode = 7, line 73
InitialMode == 7
\* analogReadResolution(8), line 122
AnalogReadBits == 8

Level == {"HIGH", "LOW"}
AlarmModes == {3, 4, 5}
Min(a, b) == IF a < b THEN a ELSE b
AnalogMax == 2^AnalogReadBits - 1
DialReadings == {(k * AnalogMax) \div NumDial : k \in 0..NumDial}

---------------------------------------------------------------------------
(* Pure functions of the program *)

\* digitalReadFast(p) == HIGH ? LOW : HIGH, lines 171-174, 434-437
Toggle(level) == IF level = "HIGH" THEN "LOW" ELSE "HIGH"

\* switch 1 selects ON only while switch 2 is HIGH (the file's header table)
SwitchModeExclusive(b1, b2) ==
    IF b1 = "LOW" /\ b2 = "HIGH" THEN 0
    ELSE IF b2 = "LOW" THEN 2
    ELSE 1

\* the chain of lines 218-229 without its last else: NewMode keeps the 7 of
\* line 217 when both switches are HIGH
SwitchModeNoDefault(b1, b2) ==
    IF b1 = "LOW" THEN 0
    ELSE IF b2 = "LOW" THEN 2
    ELSE 7

\* lines 218-229: NewMode from the two debounced switches
SwitchMode(b1, b2) ==
    IF b1 = "LOW" THEN 0
    ELSE IF b2 = "LOW" THEN 2
    ELSE 1

\* the two alarm pins taken in the other order
GetModeResultSwapped(lsb, msb, b1, b2) ==
    IF msb = "HIGH"
    THEN (IF lsb = "HIGH" THEN 5 ELSE 4)
    ELSE (IF lsb = "HIGH" THEN SwitchMode(b1, b2) ELSE 3)

\* lines 194-229: the value GetModeFunction returns
GetModeResult(lsb, msb, b1, b2) ==
    IF lsb = "HIGH"
    THEN (IF msb = "HIGH" THEN 5 ELSE 4)
    ELSE (IF msb = "HIGH" THEN SwitchMode(b1, b2) ELSE 3)

\* line 232: the condition of the startup sequence
StartupNeeded(NewMode, CurrentMode) ==
    (NewMode = 0) /\ ((CurrentMode = 1) \/ (CurrentMode = 2))

\* a stage comparing with > instead of >=
PowerStageStrict(t, w) ==
    IF t > w THEN [pin |-> "LOW", rest |-> t - w]
    ELSE [pin |-> "HIGH", rest |-> t]

\* one stage of the cascade of lines 315-385: compare, write the pin, subtract
PowerStage(t, w) ==
    IF t >= w THEN [pin |-> "LOW", rest |-> t - w]
    ELSE [pin |-> "HIGH", rest |-> t]

\* lines 313-385: the levels SetPowerLevel writes to the eight power pins
SetPowerBits(v) ==
    LET s7 == PowerStage(v, 128)
        s6 == PowerStage(s7.rest, 64)
        s5 == PowerStage(s6.rest, 32)
        s4 == PowerStage(s5.rest, 16)
        s3 == PowerStage(s4.rest, 8)
        s2 == PowerStage(s3.rest, 4)
        s1 == PowerStage(s2.rest, 2)
        s0 == PowerStage(s1.rest, 1)
    IN  [i \in 0..7 |->
            CASE i = 7 -> s7.pin [] i = 6 -> s6.pin [] i = 5 -> s5.pin
              [] i = 4 -> s4.pin [] i = 3 -> s3.pin [] i = 2 -> s2.pin
              [] i = 1 -> s1.pin [] OTHER -> s0.pin]

\* lines 428-431: (int)(Value * DisplayMultiplier), Value in 1e-3 mV
DisplayOutput(valueMilli) ==
    LET hi == DisplayMultiplier \div 1000
        lo == DisplayMultiplier % 1000
    IN  (valueMilli * hi + (valueMilli * lo) \div 1000) \div 1000000

\* line 311: 1.17641 * LaserPower, in 1e-3 mV
PowerMilliVolt(v) == (117641 * v) \div 100

\* line 393: (0.156863 * PulseFrequency) + 25, in 1e-6 kHz
Frequency(reading) == 156863 * reading + 25000000

\* the whole period, 1000 / Frequency, instead of half of it
FullPeriod(f) ==
    LET q  == 1000000000 \div f
        r0 == 1000000000 % f
        d1 == (r0 * 10) \div f
        r1 == (r0 * 10) % f
        d2 == (r1 * 10) \div f
    IN  q * 100 + d1 * 10 + d2

\* line 395: 500 / Frequency, in 1e-2 us (long division, two decimals)
HalfPeriod(f) ==
    LET q  == 500000000 \div f
        r0 == 500000000 % f
        d1 == (r0 * 10) \div f
        r1 == (r0 * 10) % f
        d2 == (r1 * 10) \div f
    IN  q * 100 + d1 * 10 + d2

\* lines 410-425: the label AlarmActions stores
AlarmLabel(Mode) ==
    IF Mode = 3 THEN "Temperature"
    ELSE IF Mode = 4 THEN "High Reflection"
    ELSE IF Mode = 5 THEN "MO"
    ELSE "Reserved Mode"

\* begin() acting as a start/stop switch: a running timer is stopped
TimerBeginFlip(t) == [running |-> ~t.running, elapsed |-> 0]

\* IntervalTimer::begin on AlarmLEDFlashTimer, line 403: the timer is
\* (re)loaded with the full period and started; a running timer is stopped
\* and started again, so the time already counted is discarded
TimerBegin(t) == [running |-> TRUE, elapsed |-> 0]

\* the period of a running timer has elapsed
TimerDue(t, period) == t.running /\ t.elapsed >= Min(period, FlashCap)

\* one ms more on a saturating clock
Older(c) == Min(c + 1, ClockCap)

---------------------------------------------------------------------------
(* Initial state: the state setup() leaves, lines 70-79 and 82-136 *)

Init ==
    /\ pc = "loop"
    /\ OperatingMode = InitialMode
    /\ EnableLaserTrigger = 0
    /\ LaserPower = 0
    /\ LaserPulsePeriod = InitialPulsePeriod
    /\ AlarmState = "NONE"
    /\ ActionBounce1 \in Level
    /\ ActionBounce2 \in Level
    /\ AlarmLSB = "unread"
    /\ AlarmMSB = "unread"
    /\ DialReading = 0
    /\ LaserMOSignal = "HIGH"
    /\ LaserONSignal = "HIGH"
    /\ LaserPulses = "HIGH"
    /\ pulseCalls = 0
    /\ ExternalLED = "LOW"
    /\ PowerPins = [i \in 0..7 |-> "HIGH"]
    /\ DisplayOut = 0
    /\ AlarmLEDFlashTimer = [running |-> FALSE, elapsed |-> 0]
    /\ delayLeft = 0
    /\ moAge = 0
    /\ offAge = 0

---------------------------------------------------------------------------
(* Building blocks of the control loop's statements *)

\* digitalWriteFast(LaserMOSignalPin, LOW), lines 239, 263
AssertMO ==
    /\ LaserMOSignal' = "LOW"
    /\ moAge' = IF LaserMOSignal = "HIGH" THEN 0 ELSE moAge

\* digitalWriteFast(LaserMOSignalPin, HIGH), lines 274, 283, 408
DeassertMO ==
    /\ LaserMOSignal' = "HIGH"
    /\ moAge' = 0

\* SetPowerLevel, lines 305-386, with analogRead returning v
SetPowerLevel(v) ==
    /\ DialReading' = v
    /\ LaserPower' = v % 256
    /\ DisplayOut' = DisplayOutput(PowerMilliVolt(v % 256))
    /\ PowerPins' = SetPowerBits(v % 256)
    /\ UNCHANGED LaserPulsePeriod

\* SetPulseRate keeping its reading in LaserPower
SetPulseRateIntoPower(v) ==
    /\ DialReading' = v
    /\ LaserPower' = v % 256
    /\ LaserPulsePeriod' = HalfPeriod(Frequency(v % 256))
    /\ DisplayOut' = DisplayOutput(Frequency(v % 256) \div 100)
    /\ UNCHANGED PowerPins

\* SetPulseRate, lines 388-400, with analogRead returning v; the restart of
\* LaserPulseTimer leaves LaserPulseGenerator firing
SetPulseRate(v) ==
    /\ DialReading' = v
    /\ LaserPulsePeriod' = HalfPeriod(Frequency(v % 256))
    /\ DisplayOut' = DisplayOutput(Frequency(v % 256) \div 100)
    /\ UNCHANGED <<LaserPower, PowerPins>>

---------------------------------------------------------------------------
(* The control loop, one action per statement or group of statements that *)
(* no callback can tell apart                                              *)

\* loop, lines 150-152: the debouncers take their new state
Loop_Update ==
    /\ pc = "loop"
    /\ pc' = "gm_lsb"
    /\ ActionBounce1' \in Level
    /\ ActionBounce2' \in Level
    /\ UNCHANGED <<OperatingMode, EnableLaserTrigger, LaserPower,
                   LaserPulsePeriod, AlarmState, AlarmLSB, AlarmMSB,
                   DialReading, LaserMOSignal, LaserONSignal, LaserPulses,
                   pulseCalls, ExternalLED, PowerPins, DisplayOut,
                   AlarmLEDFlashTimer, delayLeft, moAge, offAge>>

\* GetModeFunction, line 194: read AlarmLSBPin
GetMode_ReadLSB ==
    /\ pc = "gm_lsb"
    /\ pc' = "gm_msb"
    /\ AlarmLSB' \in Level
    /\ UNCHANGED <<OperatingMode, EnableLaserTrigger, LaserPower,
                   LaserPulsePeriod, AlarmState, ActionBounce1, ActionBounce2,
                   AlarmMSB, DialReading, LaserMOSignal, LaserONSignal,
                   LaserPulses, pulseCalls, ExternalLED, PowerPins,
                   DisplayOut, AlarmLEDFlashTimer, delayLeft, moAge, offAge>>

\* GetModeFunction keeping an alarm mode once it is entered
GetMode_ReadMSBLatched ==
    /\ pc = "gm_msb"
    /\ AlarmMSB' \in Level
    /\ LET NewMode == IF OperatingMode \in AlarmModes
                      THEN OperatingMode
                      ELSE GetModeResult(AlarmLSB, AlarmMSB', ActionBounce1,
                                         ActionBounce2)
       IN  IF StartupNeeded(NewMode, OperatingMode)
           THEN pc' = "gm_mo" /\ UNCHANGED OperatingMode
           ELSE pc' = "run" /\ OperatingMode' = NewMode
    /\ UNCHANGED <<EnableLaserTrigger, LaserPower, LaserPulsePeriod,
                   AlarmState, ActionBounce1, ActionBounce2, AlarmLSB,
                   DialReading, LaserMOSignal, LaserONSignal, LaserPulses,
                   pulseCalls, ExternalLED, PowerPins, DisplayOut,
                   AlarmLEDFlashTimer, delayLeft, moAge, offAge>>

\* GetModeFunction, lines 196-232: read AlarmMSBPin, derive the mode; return
\* it (line 246, stored by line 164) unless the startup sequence is due
GetMode_ReadMSB ==
    /\ pc = "gm_msb"
    /\ AlarmMSB' \in Level
    /\ LET NewMode == GetModeResult(AlarmLSB, AlarmMSB', ActionBounce1, ActionBounce2)
       IN  IF StartupNeeded(NewMode, OperatingMode)
           THEN pc' = "gm_mo" /\ UNCHANGED OperatingMode
           ELSE pc' = "run" /\ OperatingMode' = NewMode
    /\ UNCHANGED <<EnableLaserTrigger, LaserPower, LaserPulsePeriod,
                   AlarmState, ActionBounce1, ActionBounce2, AlarmLSB,
                   DialReading, LaserMOSignal, LaserONSignal, LaserPulses,
                   pulseCalls, ExternalLED, PowerPins, DisplayOut,
                   AlarmLEDFlashTimer, delayLeft, moAge, offAge>>

\* GetModeFunction, lines 239-240: MO on, delay(5) begins
GetMode_StartupMO ==
    /\ pc = "gm_mo"
    /\ pc' = "gm_on"
    /\ AssertMO
    /\ delayLeft' = StartupDelayMs
    /\ UNCHANGED <<OperatingMode, EnableLaserTrigger, LaserPower,
                   LaserPulsePeriod, AlarmState, ActionBounce1, ActionBounce2,
                   AlarmLSB, AlarmMSB, DialReading, LaserONSignal,
                   LaserPulses, pulseCalls, ExternalLED, PowerPins,
                   DisplayOut, AlarmLEDFlashTimer, offAge>>

\* the startup sequence with line 241 in effect: the gate is opened
GetMode_StartupONEnables ==
    /\ pc = "gm_on"
    /\ delayLeft = 0
    /\ pc' = "run"
    /\ EnableLaserTrigger' = 1
    /\ LaserONSignal' = "LOW"
    /\ OperatingMode' = 0
    /\ UNCHANGED <<LaserPower, LaserPulsePeriod, AlarmState, ActionBounce1,
                   ActionBounce2, AlarmLSB, AlarmMSB, DialReading,
                   LaserMOSignal, LaserPulses, pulseCalls, ExternalLED,
                   PowerPins, DisplayOut, AlarmLEDFlashTimer, delayLeft,
                   moAge, offAge>>

\* GetModeFunction, lines 240-246: delay(5) is over, ON on, return 0 (stored
\* by line 164)
GetMode_StartupON ==
    /\ pc = "gm_on"
    /\ delayLeft = 0
    /\ pc' = "run"
    /\ LaserONSignal' = "LOW"
    /\ OperatingMode' = 0
    /\ UNCHANGED <<EnableLaserTrigger, LaserPower, LaserPulsePeriod,
                   AlarmState, ActionBounce1, ActionBounce2, AlarmLSB,
                   AlarmMSB, DialReading, LaserMOSignal, LaserPulses,
                   pulseCalls, ExternalLED, PowerPins, DisplayOut,
                   AlarmLEDFlashTimer, delayLeft, moAge, offAge>>

\* loop, line 165, and ModeRunFunction, lines 261-302: the branch taken
ModeRun_Dispatch ==
    /\ pc = "run"
    /\ pc' = IF OperatingMode = 0 THEN "on_mo"
             ELSE IF OperatingMode = 1 \/ OperatingMode = 2 THEN "sd_on"
             ELSE "aa_begin"
    /\ UNCHANGED <<OperatingMode, EnableLaserTrigger, LaserPower,
                   LaserPulsePeriod, AlarmState, ActionBounce1, ActionBounce2,
                   AlarmLSB, AlarmMSB, DialReading, LaserMOSignal,
                   LaserONSignal, LaserPulses, pulseCalls, ExternalLED,
                   PowerPins, DisplayOut, AlarmLEDFlashTimer, delayLeft,
                   moAge, offAge>>

\* ModeRunFunction, Mode == 0, line 263
On_MO ==
    /\ pc = "on_mo"
    /\ pc' = "on_on"
    /\ AssertMO
    /\ UNCHANGED <<OperatingMode, EnableLaserTrigger, LaserPower,
                   LaserPulsePeriod, AlarmState, ActionBounce1, ActionBounce2,
                   AlarmLSB, AlarmMSB, DialReading, LaserONSignal,
                   LaserPulses, pulseCalls, ExternalLED, PowerPins,
                   DisplayOut, AlarmLEDFlashTimer, delayLeft, offAge>>

\* ModeRunFunction, Mode == 0, line 265
On_ON ==
    /\ pc = "on_on"
    /\ pc' = "on_set"
    /\ LaserONSignal' = "LOW"
    /\ UNCHANGED <<OperatingMode, EnableLaserTrigger, LaserPower,
                   LaserPulsePeriod, AlarmState, ActionBounce1, ActionBounce2,
                   AlarmLSB, AlarmMSB, DialReading, LaserMOSignal,
                   LaserPulses, pulseCalls, ExternalLED, PowerPins,
                   DisplayOut, AlarmLEDFlashTimer, delayLeft, moAge, offAge>>

\* the ON branch also clearing the alarm label
On_SetClearsAlarm ==
    /\ pc = "on_set"
    /\ pc' = "loop"
    /\ \E v \in DialReadings : SetPowerLevel(v)
    /\ ExternalLED' = "HIGH"
    /\ AlarmState' = "NONE"
    /\ UNCHANGED <<OperatingMode, EnableLaserTrigger, ActionBounce1,
                   ActionBounce2, AlarmLSB, AlarmMSB, LaserMOSignal,
                   LaserONSignal, LaserPulses, pulseCalls, AlarmLEDFlashTimer,
                   delayLeft, moAge, offAge>>

\* the ON branch without its last statement (line 267)
On_SetNoLED ==
    /\ pc = "on_set"
    /\ pc' = "loop"
    /\ \E v \in DialReadings : SetPowerLevel(v)
    /\ UNCHANGED <<OperatingMode, EnableLaserTrigger, AlarmState,
                   ActionBounce1, ActionBounce2, AlarmLSB, AlarmMSB,
                   LaserMOSignal, LaserONSignal, LaserPulses, pulseCalls,
                   ExternalLED, AlarmLEDFlashTimer, delayLeft, moAge, offAge>>

\* ModeRunFunction, Mode == 0, lines 266-267: SetPowerLevel, LED on
On_Set ==
    /\ pc = "on_set"
    /\ pc' = "loop"
    /\ \E v \in DialReadings : SetPowerLevel(v)
    /\ ExternalLED' = "HIGH"
    /\ UNCHANGED <<OperatingMode, EnableLaserTrigger, AlarmState,
                   ActionBounce1, ActionBounce2, AlarmLSB, AlarmMSB,
                   LaserMOSignal, LaserONSignal, LaserPulses, pulseCalls,
                   AlarmLEDFlashTimer, delayLeft, moAge, offAge>>

\* the shutdown sequence of IDLE / OFF_SET_RATE in the other order: MO off
\* first, then the wait
Off_ONWritesMO ==
    /\ pc = "sd_on"
    /\ pc' = "sd_mo"
    /\ EnableLaserTrigger' = 0
    /\ DeassertMO
    /\ delayLeft' = ShutdownDelayMs
    /\ offAge' = 0
    /\ UNCHANGED <<OperatingMode, LaserPower, LaserPulsePeriod, AlarmState,
                   ActionBounce1, ActionBounce2, AlarmLSB, AlarmMSB,
                   DialReading, LaserONSignal, LaserPulses, pulseCalls,
                   ExternalLED, PowerPins, DisplayOut, AlarmLEDFlashTimer>>

\* ModeRunFunction, Mode == 1 or 2, lines 271-273, 280-282: gate cleared, ON
\* off, delay(1) begins
Off_ON ==
    /\ pc = "sd_on"
    /\ pc' = "sd_mo"
    /\ EnableLaserTrigger' = 0
    /\ LaserONSignal' = "HIGH"
    /\ delayLeft' = ShutdownDelayMs
    /\ offAge' = 0
    /\ UNCHANGED <<OperatingMode, LaserPower, LaserPulsePeriod, AlarmState,
                   ActionBounce1, ActionBounce2, AlarmLSB, AlarmMSB,
                   DialReading, LaserMOSignal, LaserPulses, pulseCalls,
                   ExternalLED, PowerPins, DisplayOut, AlarmLEDFlashTimer,
                   moAge>>

\* ModeRunFunction, Mode == 1 or 2, lines 273-274, 282-283: delay(1) is
\* over, MO off
Off_MO ==
    /\ pc = "sd_mo"
    /\ delayLeft = 0
    /\ pc' = "sd_set"
    /\ DeassertMO
    /\ offAge' = 0
    /\ UNCHANGED <<OperatingMode, EnableLaserTrigger, LaserPower,
                   LaserPulsePeriod, AlarmState, ActionBounce1, ActionBounce2,
                   AlarmLSB, AlarmMSB, DialReading, LaserONSignal,
                   LaserPulses, pulseCalls, ExternalLED, PowerPins,
                   DisplayOut, AlarmLEDFlashTimer, delayLeft>>

\* Off_Set stopping the flasher once the mode is no alarm mode
Off_SetStopsFlasher ==
    /\ pc = "sd_set"
    /\ pc' = "loop"
    /\ \E v \in DialReadings :
          IF OperatingMode = 1 THEN SetPowerLevel(v) ELSE SetPulseRate(v)
    /\ ExternalLED' = "LOW"
    /\ AlarmLEDFlashTimer' = [running |-> FALSE, elapsed |-> 0]
    /\ UNCHANGED <<OperatingMode, EnableLaserTrigger, AlarmState,
                   ActionBounce1, ActionBounce2, AlarmLSB, AlarmMSB,
                   LaserMOSignal, LaserONSignal, LaserPulses, pulseCalls,
                   delayLeft, moAge, offAge>>

\* ModeRunFunction, lines 275-276 (Mode == 1: SetPowerLevel) and 284-285
\* (Mode == 2: SetPulseRate), LED off
Off_Set ==
    /\ pc = "sd_set"
    /\ pc' = "loop"
    /\ \E v \in DialReadings :
          IF OperatingMode = 1 THEN SetPowerLevel(v) ELSE SetPulseRate(v)
    /\ ExternalLED' = "LOW"
    /\ UNCHANGED <<OperatingMode, EnableLaserTrigger, AlarmState,
                   ActionBounce1, ActionBounce2, AlarmLSB, AlarmMSB,
                   LaserMOSignal, LaserONSignal, LaserPulses, pulseCalls,
                   AlarmLEDFlashTimer, delayLeft, moAge, offAge>>

\* AlarmActions also switching the laser power off
Alarm_BeginClearsPower ==
    /\ pc = "aa_begin"
    /\ pc' = "aa_on"
    /\ AlarmLEDFlashTimer' = TimerBegin(AlarmLEDFlashTimer)
    /\ DisplayOut' = DisplayOutput(0)
    /\ EnableLaserTrigger' = 0
    /\ LaserPower' = 0
    /\ PowerPins' = SetPowerBits(0)
    /\ UNCHANGED <<OperatingMode, LaserPulsePeriod, AlarmState, ActionBounce1,
                   ActionBounce2, AlarmLSB, AlarmMSB, DialReading,
                   LaserMOSignal, LaserONSignal, LaserPulses, pulseCalls,
                   ExternalLED, delayLeft, moAge, offAge>>

\* AlarmActions, lines 403-405: (re)start the flasher, display zero, gate
\* cleared
Alarm_Begin ==
    /\ pc = "aa_begin"
    /\ pc' = "aa_on"
    /\ AlarmLEDFlashTimer' = TimerBegin(AlarmLEDFlashTimer)
    /\ DisplayOut' = DisplayOutput(0)
    /\ EnableLaserTrigger' = 0
    /\ UNCHANGED <<OperatingMode, LaserPower, LaserPulsePeriod, AlarmState,
                   ActionBounce1, ActionBounce2, AlarmLSB, AlarmMSB,
                   DialReading, LaserMOSignal, LaserONSignal, LaserPulses,
                   pulseCalls, ExternalLED, PowerPins, delayLeft, moAge,
                   offAge>>

\* AlarmActions, lines 406-407: ON off, delay(1) begins
Alarm_ON ==
    /\ pc = "aa_on"
    /\ pc' = "aa_mo"
    /\ LaserONSignal' = "HIGH"
    /\ delayLeft' = ShutdownDelayMs
    /\ offAge' = 0
    /\ UNCHANGED <<OperatingMode, EnableLaserTrigger, LaserPower,
                   LaserPulsePeriod, AlarmState, ActionBounce1, ActionBounce2,
                   AlarmLSB, AlarmMSB, DialReading, LaserMOSignal,
                   LaserPulses, pulseCalls, ExternalLED, PowerPins,
                   DisplayOut, AlarmLEDFlashTimer, moAge>>

\* AlarmActions, lines 407-425: delay(1) is over, MO off, the label stored
Alarm_MO ==
    /\ pc = "aa_mo"
    /\ delayLeft = 0
    /\ pc' = "loop"
    /\ DeassertMO
    /\ offAge' = 0
    /\ AlarmState' = AlarmLabel(OperatingMode)
    /\ UNCHANGED <<OperatingMode, EnableLaserTrigger, LaserPower,
                   LaserPulsePeriod, ActionBounce1, ActionBounce2, AlarmLSB,
                   AlarmMSB, DialReading, LaserONSignal, LaserPulses,
                   pulseCalls, ExternalLED, PowerPins, DisplayOut,
                   AlarmLEDFlashTimer, delayLeft>>

ControlLoop ==
    \/ Loop_Update
    \/ GetMode_ReadLSB
    \/ GetMode_ReadMSB
    \/ GetMode_StartupMO
    \/ GetMode_StartupON
    \/ ModeRun_Dispatch
    \/ On_MO
    \/ On_ON
    \/ On_Set
    \/ Off_ON
    \/ Off_MO
    \/ Off_Set
    \/ Alarm_Begin
    \/ Alarm_ON
    \/ Alarm_MO

---------------------------------------------------------------------------
(* The timer callbacks and the passage of time *)

\* LaserPulseGenerator without its else branch: the pin is only ever cleared
LaserPulseGeneratorNoElse ==
    /\ LaserPulses' = "LOW"
    /\ pulseCalls' = (pulseCalls + 1) % 2
    /\ LaserONSignal' = IF EnableLaserTrigger = 0 THEN "HIGH" ELSE "LOW"
    /\ UNCHANGED <<pc, OperatingMode, EnableLaserTrigger, LaserPower,
                   LaserPulsePeriod, AlarmState, ActionBounce1, ActionBounce2,
                   AlarmLSB, AlarmMSB, DialReading, LaserMOSignal,
                   ExternalLED, PowerPins, DisplayOut, AlarmLEDFlashTimer,
                   delayLeft, moAge, offAge>>

\* LaserPulseGenerator, lines 169-179; its timer runs from setup on (line
\* 134) with a period of microseconds, so it may fire between any two steps
LaserPulseGenerator ==
    /\ LaserPulses' = Toggle(LaserPulses)
    /\ pulseCalls' = (pulseCalls + 1) % 2
    /\ LaserONSignal' = IF EnableLaserTrigger = 0 THEN "HIGH" ELSE "LOW"
    /\ UNCHANGED <<pc, OperatingMode, EnableLaserTrigger, LaserPower,
                   LaserPulsePeriod, AlarmState, ActionBounce1, ActionBounce2,
                   AlarmLSB, AlarmMSB, DialReading, LaserMOSignal,
                   ExternalLED, PowerPins, DisplayOut, AlarmLEDFlashTimer,
                   delayLeft, moAge, offAge>>

\* AlarmLEDFlasher, lines 433-438, called when its timer's period is over;
\* the timer reloads itself
AlarmLEDFlasher ==
    /\ TimerDue(AlarmLEDFlashTimer, AlarmFlashPeriodMs)
    /\ ExternalLED' = Toggle(ExternalLED)
    /\ AlarmLEDFlashTimer' = [AlarmLEDFlashTimer EXCEPT !.elapsed = 0]
    /\ UNCHANGED <<pc, OperatingMode, EnableLaserTrigger, LaserPower,
                   LaserPulsePeriod, AlarmState, ActionBounce1, ActionBounce2,
                   AlarmLSB, AlarmMSB, DialReading, LaserMOSignal,
                   LaserONSignal, LaserPulses, pulseCalls, PowerPins,
                   DisplayOut, delayLeft, moAge, offAge>>

\* one millisecond passes: inside a delay() (lines 240, 273, 282, 407) or
\* between two cycles of loop()
Tick ==
    /\ (delayLeft > 0 \/ pc = "loop")
    /\ delayLeft' = IF delayLeft > 0 THEN delayLeft - 1 ELSE 0
    /\ moAge' = IF LaserMOSignal = "LOW" THEN Older(moAge) ELSE moAge
    /\ offAge' = IF pc \in {"sd_mo", "aa_mo"} THEN Older(offAge) ELSE offAge
    /\ AlarmLEDFlashTimer' =
          IF AlarmLEDFlashTimer.running
          THEN [AlarmLEDFlashTimer EXCEPT !.elapsed = Min(@ + 1, FlashCap)]
          ELSE AlarmLEDFlashTimer
    /\ UNCHANGED <<pc, OperatingMode, EnableLaserTrigger, LaserPower,
                   LaserPulsePeriod, AlarmState, ActionBounce1, ActionBounce2,
                   AlarmLSB, AlarmMSB, DialReading, LaserMOSignal,
                   LaserONSignal, LaserPulses, pulseCalls, ExternalLED,
                   PowerPins, DisplayOut>>

Next ==
    \/ ControlLoop
    \/ LaserPulseGenerator
    \/ AlarmLEDFlasher
    \/ Tick

Spec == Init /\ [][Next]_vars

\* The control loop never stops; time passes (Tick is enabled at every cycle
\* boundary and in every delay, so it must not be passed over for ever); the
\* pulse timer keeps calling its callback; a timer whose period is over
\* calls its callback.
FairSpec ==
    /\ Spec
    /\ WF_vars(ControlLoop)
    /\ SF_vars(Tick)
    /\ WF_vars(LaserPulseGenerator)
    /\ SF_vars(AlarmLEDFlasher)

---------------------------------------------------------------------------
(* SetPowerLevel on every reading of the 8-bit converter *)

PowerLevelStep ==
    /\ \E v \in 0..AnalogMax : SetPowerLevel(v)
    /\ UNCHANGED <<pc, OperatingMode, EnableLaserTrigger, AlarmState,
                   ActionBounce1, ActionBounce2, AlarmLSB, AlarmMSB,
                   LaserMOSignal, LaserONSignal, LaserPulses, pulseCalls,
                   ExternalLED, AlarmLEDFlashTimer, delayLeft, moAge, offAge>>

PowerSpec == Init /\ [][PowerLevelStep]_vars

---------------------------------------------------------------------------
(* SetPulseRate on every reading of the 8-bit converter *)

PulseRateStep ==
    /\ \E v \in 0..AnalogMax : SetPulseRate(v)
    /\ UNCHANGED <<pc, OperatingMode, EnableLaserTrigger, AlarmState,
                   ActionBounce1, ActionBounce2, AlarmLSB, AlarmMSB,
                   LaserMOSignal, LaserONSignal, LaserPulses, pulseCalls,
                   ExternalLED, AlarmLEDFlashTimer, delayLeft, moAge, offAge>>

PulseSpec == Init /\ [][PulseRateStep]_vars

---------------------------------------------------------------------------
(* Properties *)

\* bit i of v
Bit(v, i) == (v \div 2^i) % 2

\* the two alarm bits read in this cycle are an alarm code
AlarmCodeRead ==
    /\ AlarmLSB \in Level
    /\ AlarmMSB \in Level
    /\ ~(AlarmLSB = "LOW" /\ AlarmMSB = "HIGH")

\* C1: whenever the ON-enable output goes from HIGH to LOW, the MO-enable
\* output is LOW and has been LOW for at least 5 ms, on every path.
C1_MOPrecedesON ==
    [][(LaserONSignal = "HIGH" /\ LaserONSignal' = "LOW")
          => (LaserMOSignal = "LOW" /\ moAge >= 5)]_vars

\* C2: the startup sequence of GetModeFunction (current mode 1 or 2, result
\* 0) asserts MO while ON is de-asserted, keeps ON de-asserted during the
\* wait, and asserts ON only when MO has been LOW for at least 5 ms; it is
\* entered exactly when the current mode is 1 or 2 and the result is 0.
C2_StartupSequence ==
    [][/\ (pc = "gm_msb" /\ pc' = "gm_mo")
            => (OperatingMode \in {1, 2} /\ LaserONSignal' = "HIGH")
       /\ (pc = "gm_msb" /\ pc' = "run" /\ OperatingMode \in {1, 2})
            => OperatingMode' # 0
       /\ (pc' = "gm_on")
            => (LaserMOSignal' = "LOW" /\ LaserONSignal' = "HIGH")
       /\ (pc = "gm_on" /\ pc' = "run")
            => /\ LaserMOSignal = "LOW"
               /\ moAge >= 5
               /\ LaserONSignal' = "LOW"
               /\ OperatingMode' = 0]_vars

C2_Witness ==
    /\ pc = "gm_on"
    /\ delayLeft = 0
    /\ moAge = 5
    /\ OperatingMode = 2
    /\ LaserMOSignal = "LOW"
    /\ LaserONSignal = "HIGH"
    /\ LaserPulses = "LOW"

C4_AlarmShutdown ==
    [][/\ (pc = "run" /\ AlarmCodeRead) => pc' \in {"run", "aa_begin"}
       /\ (pc' = "aa_mo")
            => (EnableLaserTrigger' = 0 /\ LaserONSignal' = "HIGH")
       /\ (pc \in {"aa_begin", "aa_on", "aa_mo"} /\ pc' # "loop")
            => LaserMOSignal' = LaserMOSignal
       /\ (pc = "aa_mo" /\ pc' = "loop")
            => (offAge >= 1 /\ LaserMOSignal' = "HIGH")
       /\ (pc' = "loop" /\ AlarmCodeRead')
            => /\ OperatingMode' \in AlarmModes
               /\ EnableLaserTrigger' = 0
               /\ LaserONSignal' = "HIGH"
               /\ LaserMOSignal' = "HIGH"]_vars

C4_Witness ==
    /\ pc = "aa_mo"
    /\ OperatingMode = 5
    /\ ActionBounce1 = "LOW"
    /\ LaserMOSignal = "LOW"
    /\ LaserONSignal = "HIGH"
    /\ offAge = 1
    /\ delayLeft = 0

\* C5: once a cycle has ended in mode ON, ON-enable is LOW for as long as
\* the mode stays ON, whenever the pulse callback fires.
C5_ONStaysAsserted ==
    (OperatingMode = 0 /\ pc \in {"loop", "gm_lsb", "gm_msb"})
        => LaserONSignal = "LOW"

\* C6: if the mode stays an alarm mode from some cycle on, the Alarm
\* Flasher callback fires again and again (the indicator is toggled).
C6_FlasherFiresInAlarm ==
    <>[](OperatingMode \in AlarmModes) => []<><<AlarmLEDFlasher>>_vars

C8_PowerEncoding ==
    /\ DialReading \in 0..255
    /\ LaserPower = DialReading
    /\ \A i \in 0..7 : (PowerPins[i] = "LOW") <=> (Bit(DialReading, i) = 1)

C8_Witness ==
    /\ DialReading = 128
    /\ LaserPower = 128
    /\ PowerPins[7] = "LOW"
    /\ \A i \in 0..6 : PowerPins[i] = "HIGH"

\* C9: at every cycle boundary, in every mode, the eight power pins are the
\* bitwise complement of LaserPower.
C9_PinsReflectPower ==
    pc = "loop" =>
        \A i \in 0..7 :
            PowerPins[i] = IF Bit(LaserPower, i) = 1 THEN "LOW" ELSE "HIGH"

C9_Witness ==
    /\ pc = "loop"
    /\ OperatingMode = 2
    /\ LaserPower = 255
    /\ DialReading = 0
    /\ AlarmState = "MO"
    /\ \A i \in 0..7 : PowerPins[i] = "LOW"

\* C10: once the Alarm Flasher's timer runs it runs for ever: no step of
\* any mode stops it; and if the mode then stays a non-alarm mode (0, 1, 2)
\* the callback is called again and again.
C10_FlasherStaysScheduled ==
    /\ [][AlarmLEDFlashTimer.running => AlarmLEDFlashTimer'.running]_vars
    /\ <>[](AlarmLEDFlashTimer.running /\ OperatingMode \in {0, 1, 2})
          => []<><<AlarmLEDFlasher>>_vars

\* the callback has toggled the indicator after the mode returned to IDLE
C10_Witness ==
    /\ pc = "loop"
    /\ OperatingMode = 1
    /\ AlarmState # "NONE"
    /\ AlarmLEDFlashTimer.running
    /\ ExternalLED = "HIGH"

\* C11: an alarm mode is not latched.  In a cycle that starts in an alarm
\* mode, GetModeFunction returns the switch-derived mode (0, 1 or 2) as soon
\* as it reads LSB=0, MSB=1, and the alarm mode of the code read otherwise;
\* the mode then stays as it is until GetModeFunction is called again.
C11_AlarmNotLatched ==
    [][/\ (pc = "gm_msb" /\ pc' # "gm_msb" /\ OperatingMode \in AlarmModes)
            => /\ pc' = "run"
               /\ (AlarmLSB' = "LOW" /\ AlarmMSB' = "HIGH")
                     => /\ OperatingMode' \in {0, 1, 2}
                        /\ OperatingMode' = 0 <=> ActionBounce1 = "LOW"
                        /\ OperatingMode' = 2 <=>
                              (ActionBounce1 = "HIGH" /\ ActionBounce2 = "LOW")
               /\ (AlarmLSB' = "HIGH" /\ AlarmMSB' = "HIGH")
                     => OperatingMode' = 5
               /\ (AlarmLSB' = "HIGH" /\ AlarmMSB' = "LOW")
                     => OperatingMode' = 4
               /\ (AlarmLSB' = "LOW" /\ AlarmMSB' = "LOW")
                     => OperatingMode' = 3
       /\ (pc \notin {"gm_msb", "gm_on"}) => OperatingMode' = OperatingMode]_vars

\* the cycle after an alarm cycle has read "no alarm" with switch 1 LOW: the
\* mode is ON although MO-enable is still HIGH from the alarm
C11_Witness ==
    /\ pc = "run"
    /\ OperatingMode = 0
    /\ AlarmState = "Temperature"
    /\ AlarmLSB = "LOW"
    /\ AlarmMSB = "HIGH"
    /\ LaserMOSignal = "HIGH"
    /\ DisplayOut = 0
    /\ AlarmLEDFlashTimer.running

\* C12: every call of the pulse-generator callback inverts the pulse output,
\* wherever the control loop is (the restart of the pulse timer by
\* SetPulseRate included); no other step writes the pulse output; so the
\* output is HIGH after an even number of calls and LOW after an odd number.
C12_PulseToggle ==
    /\ [][(pulseCalls' # pulseCalls)
             => LaserPulses' = (IF LaserPulses = "HIGH" THEN "LOW" ELSE "HIGH")]_vars
    /\ [][(pulseCalls' = pulseCalls) => LaserPulses' = LaserPulses]_vars
    /\ [](LaserPulses = IF pulseCalls = 0 THEN "HIGH" ELSE "LOW")

\* an odd number of calls, the last after SetPulseRate restarted the timer
\* with the shortest period
C12_Witness ==
    /\ pc = "loop"
    /\ OperatingMode = 2
    /\ LaserPulsePeriod = 769
    /\ pulseCalls = 1
    /\ LaserPulses = "LOW"

\* C13: no step of a cycle whose mode is OFF_SET_RATE (2) or an alarm mode
\* (3, 4, 5) changes LaserPower or any of the eight power pins; they change
\* only in the SetPowerLevel call of a cycle in mode ON (0) or IDLE (1).
C13_PowerFrame ==
    [][/\ (pc \in {"run", "sd_on", "sd_mo", "sd_set", "aa_begin", "aa_on",
                   "aa_mo"} /\ OperatingMode \in {2, 3, 4, 5})
            => (LaserPower' = LaserPower /\ PowerPins' = PowerPins)
       /\ (LaserPower' # LaserPower \/ PowerPins' # PowerPins)
            => \/ (pc = "on_set" /\ OperatingMode = 0)
               \/ (pc = "sd_set" /\ OperatingMode = 1)]_vars

\* an alarm cycle has ended with the power of the ON cycle before it still
\* on the pins
C13_Witness ==
    /\ pc = "loop"
    /\ OperatingMode = 3
    /\ AlarmState = "Temperature"
    /\ LaserPower = 255
    /\ \A i \in 0..7 : PowerPins[i] = "LOW"
    /\ DisplayOut = 0
    /\ ExternalLED = "HIGH"

\* the indicator level the mode actions write: HIGH in ON, LOW in IDLE and
\* OFF_SET_RATE
LEDMatchesMode ==
    /\ (OperatingMode = 0) => ExternalLED = "HIGH"
    /\ (OperatingMode \in {1, 2}) => ExternalLED = "LOW"

\* C14: in every state between two control cycles the indicator LED is HIGH
\* when the mode is ON and LOW when it is IDLE or OFF_SET_RATE, also after
\* an alarm, with the Alarm Flasher callback interleaved.
C14_LEDFollowsMode == (pc = "loop") => LEDMatchesMode

\* C14 as amended: every control cycle in mode ON ends with the indicator
\* HIGH, every cycle in mode IDLE or OFF_SET_RATE with the indicator LOW;
\* between two cycles the level changes only by a call of the Alarm Flasher
\* (its timer running, the period over), so it is as the mode says in every
\* state between cycles as long as no alarm has started the flasher.
C14_LEDAtCycleEnd ==
    /\ [][(pc # "loop" /\ pc' = "loop") => LEDMatchesMode']_vars
    /\ [][(pc = "loop" /\ pc' = "loop" /\ ExternalLED' # ExternalLED)
             => /\ AlarmLEDFlashTimer.running
                /\ AlarmLEDFlashTimer.elapsed > 0
                /\ AlarmLEDFlashTimer'.elapsed = 0
                /\ AlarmState # "NONE"]_vars
    /\ []((pc = "loop" /\ ~AlarmLEDFlashTimer.running) => LEDMatchesMode)

\* an ON cycle after an alarm has just ended: the indicator is HIGH, the
\* flasher's period is over and its callback is about to invert the level
C14_Witness ==
    /\ pc = "loop"
    /\ OperatingMode = 0
    /\ ExternalLED = "HIGH"
    /\ LaserMOSignal = "LOW"
    /\ AlarmState = "MO"
    /\ AlarmLEDFlashTimer.running
    /\ AlarmLEDFlashTimer.elapsed = FlashCap

\* what one run of AlarmActions leaves, for the mode it was called with
AlarmActionsDone ==
    /\ AlarmState = (CASE OperatingMode = 3 -> "Temperature"
                       [] OperatingMode = 4 -> "High Reflection"
                       [] OperatingMode = 5 -> "MO"
                       [] OTHER -> "Reserved Mode")
    /\ EnableLaserTrigger = 0
    /\ LaserONSignal = "HIGH"
    /\ LaserMOSignal = "HIGH"
    /\ DisplayOut = 0
    /\ AlarmLEDFlashTimer.running

\* C15: AlarmActions is idempotent.  Every run ends in the state described
\* by its mode alone (label of the mode, gate 0, ON-enable and MO-enable
\* HIGH, display 0, flasher running, 1 ms into its period), and a run that
\* starts in the state a run with the same mode has left changes none of
\* these at any of its steps.
C15_AlarmActionsIdempotent ==
    /\ [][(pc = "aa_mo" /\ pc' = "loop")
             => (AlarmActionsDone' /\ AlarmLEDFlashTimer'.elapsed = 1)]_vars
    /\ [][(pc \in {"aa_begin", "aa_on", "aa_mo"} /\ AlarmActionsDone)
             => AlarmActionsDone']_vars

\* the second of two runs in a row with mode 4, its wait over
C15_Witness ==
    /\ pc = "aa_mo"
    /\ delayLeft = 0
    /\ OperatingMode = 4
    /\ AlarmState = "High Reflection"
    /\ LaserMOSignal = "HIGH"
    /\ LaserPower = 255
    /\ DisplayOut = 0
    /\ AlarmLEDFlashTimer = [running |-> TRUE, elapsed |-> 1]

\* C16: the mode is 7 only before the first call of GetModeFunction has
\* returned; from then on it is one of 0..5 in every state, AlarmActions
\* runs only with modes 3, 4, 5, and AlarmState is never "Reserved Mode".
C16_ReservedUnreachable ==
    /\ []((OperatingMode = 7)
             => (pc \in {"loop", "gm_lsb", "gm_msb"} /\ AlarmState = "NONE"))
    /\ []((pc \notin {"loop", "gm_lsb", "gm_msb"}) => OperatingMode \in 0..5)
    /\ [][(OperatingMode # 7) => (OperatingMode' \in 0..5)]_vars
    /\ []((pc \in {"aa_begin", "aa_on", "aa_mo"}) => OperatingMode \in {3, 4, 5})
    /\ [](AlarmState # "Reserved Mode")

\* the first call of GetModeFunction has returned 1: MO-enable is as setup
\* left it, nothing has been displayed, no alarm has been seen
C16_Witness ==
    /\ pc = "run"
    /\ OperatingMode = 1
    /\ AlarmState = "NONE"
    /\ LaserMOSignal = "HIGH"
    /\ LaserPulsePeriod = 1250
    /\ ExternalLED = "LOW"
    /\ moAge = 0
    /\ ActionBounce1 = "HIGH"
    /\ ActionBounce2 = "HIGH"

\* C17: for every reading r in 0..255 SetPulseRate leaves the half-period
\* 500 / f with f = 0.156863 * r + 25 (to the model's 0.01 us), 20 us at r = 0
\* and 7.69 us at r = 255; f is 25 at r = 0 and 65 at r = 255 (displayed as
\* 310 and 806) and grows strictly with r (so does the value displayed, and
\* the half-period never grows); the half-period is within [7.69, 20] us in
\* every state, the initial 12.5 us included.
C17_PulseRate ==
    /\ [](DialReading \in 0..255)
    /\ [](LaserPulsePeriod >= 769 /\ LaserPulsePeriod <= 2000)
    /\ [][LET r  == DialReading'
              f3 == (156863 * r + 25000000) \div 1000
          IN  /\ LaserPulsePeriod' * f3 <= 50000000
              /\ (LaserPulsePeriod' + 1) * (f3 + 1) > 50000000
              /\ (r = 0) => (LaserPulsePeriod' = 2000 /\ DisplayOut' = 310)
              /\ (r = 255) => (LaserPulsePeriod' = 769 /\ DisplayOut' = 806)
              /\ (DisplayOut > 0 /\ r > DialReading)
                    => /\ DisplayOut' > DisplayOut
                       /\ LaserPulsePeriod' <= LaserPulsePeriod]_vars

\* the rate set from the highest reading
C17_Witness ==
    /\ DialReading = 255
    /\ LaserPulsePeriod = 769
    /\ DisplayOut = 806
    /\ LaserPower = 0

\* C18: in every state, inside the startup and shutdown sequences and with
\* the pulse callback fired between any two of their statements, ON-enable
\* LOW (asserted) implies MO-enable LOW (asserted).
C18_ONImpliesMO == (LaserONSignal = "LOW") => (LaserMOSignal = "LOW")

\* an alarm cycle is about to shut down a laser that is on: ON-enable and
\* MO-enable are both asserted when AlarmActions reaches line 406
C18_Witness ==
    /\ pc = "aa_on"
    /\ OperatingMode = 3
    /\ LaserONSignal = "LOW"
    /\ LaserMOSignal = "LOW"

\* C19: the gate EnableLaserTrigger is 0 in every state, so every call of
\* the pulse callback, in every mode, leaves ON-enable HIGH (de-asserted).
C19_GateAlwaysClosed ==
    /\ [](EnableLaserTrigger = 0)
    /\ [][(pulseCalls' # pulseCalls) => LaserONSignal' = "HIGH"]_vars

\* the callback has fired in mode ON after the startup sequence: MO-enable
\* is asserted, ON-enable is not
C19_Witness ==
    /\ pc = "on_mo"
    /\ OperatingMode = 0
    /\ moAge = 5
    /\ pulseCalls = 1
    /\ LaserMOSignal = "LOW"
    /\ LaserONSignal = "HIGH"

\* C20: AlarmState is "NONE" only as long as no run of AlarmActions has
\* ended; it never returns to "NONE"; it changes only at the end of a run of
\* AlarmActions, to the label of that run's mode, so in every later state,
\* in modes ON, IDLE and OFF_SET_RATE too, it is the label of the alarm mode
\* executed last.
C20_AlarmStateSticky ==
    /\ [][(AlarmState # "NONE") => (AlarmState' # "NONE")]_vars
    /\ [][(pc = "aa_mo" /\ pc' = "loop")
             => AlarmState' = (CASE OperatingMode = 3 -> "Temperature"
                                 [] OperatingMode = 4 -> "High Reflection"
                                 [] OTHER -> "MO")]_vars
    /\ [][(AlarmState' # AlarmState) => (pc = "aa_mo" /\ pc' = "loop")]_vars
    /\ []((AlarmState = "NONE" /\ pc \notin {"aa_on", "aa_mo"})
             => ~AlarmLEDFlashTimer.running)

\* an ON cycle has ended after a reflection alarm: the label is still there
C20_Witness ==
    /\ pc = "loop"
    /\ OperatingMode = 0
    /\ AlarmState = "High Reflection"
    /\ LaserMOSignal = "LOW"
    /\ LaserONSignal = "LOW"
    /\ ExternalLED = "HIGH"
    /\ LaserPower = 255

====
